---- MODULE Spec2Model ----
(***************************************************************************)
(* Model of the Knowledge Crawler entity record pipeline                   *)
(* (src/knowledge_crawler): the driver loop of main(), the per-entity      *)
(* stage sequence of process_entity(), and the helpers assemble_json,      *)
(* standardize_entity_id, validate_schema and save_json_to_file.           *)
(*                                                                         *)
(* JSON values are tagged records [t |-> <type>, v |-> <payload>]; Python  *)
(* dicts are functions from key strings to JSON values, lists are          *)
(* sequences.  Entity names and raw text are sequences of one-character    *)
(* strings so that the character-level code (re.sub, split, capitalize,    *)
(* strip) is computed the way the source computes it.                      *)
(***************************************************************************)
EXTENDS Integers, Sequences, FiniteSets, TLC

(* ----------------------------- bounds --------------------------------- *)
\* number of cells in the first column of the input sheet
MaxRows == 3
\* number of top-level keys of a record that are removed or replaced before
\* the record is given to validate_schema on its own
MaxDefects == 2
\* number of save_json_to_file calls made in a row on one output directory
MaxSaves == 3
\* length of the labels standardize_entity_id is called on
MaxLabelLen == 3

(* --------------------------- JSON values ------------------------------ *)
Str(s) == [t |-> "string", v |-> s]
Arr(s) == [t |-> "array", v |-> s]
Obj(f) == [t |-> "object", v |-> f]
Num == [t |-> "number", v |-> 0]
None == [t |-> "null", v |-> 0]
Text(cs) == [t |-> "text", v |-> cs]
EmptyMap == [k \in {} |-> None]

\* dict.get(key, default)
Get(d, key, default) == IF key \in DOMAIN d THEN d[key] ELSE default

\* "".join(list of str)
RECURSIVE Join(_)
Join(ss) == IF ss = <<>> THEN "" ELSE Head(ss) \o Join(Tail(ss))

\* concatenation of a sequence of character sequences
RECURSIVE Flatten(_)
Flatten(ws) == IF ws = <<>> THEN <<>> ELSE Head(ws) \o Flatten(Tail(ws))

(* ---------------------- standardize_entity_id ------------------------- *)
Whitespace == {" ", "\t", "\n"}
LowerCase == <<"a","b","c","d","e","f","g","h","i","j","k","l","m",
               "n","o","p","q","r","s","t","u","v","w","x","y","z">>
UpperCase == <<"A","B","C","D","E","F","G","H","I","J","K","L","M",
               "N","O","P","Q","R","S","T","U","V","W","X","Y","Z">>
Digits == {"0","1","2","3","4","5","6","7","8","9"}
Range(s) == {s[i] : i \in DOMAIN s}
AlnumChars == Range(LowerCase) \cup Range(UpperCase) \cup Digits

IndexOf(s, c) == CHOOSE i \in DOMAIN s : s[i] = c
\* str.upper() / str.lower() on one character
Upper(c) == IF c \in Range(LowerCase) THEN UpperCase[IndexOf(LowerCase, c)] ELSE c
Lower(c) == IF c \in Range(UpperCase) THEN LowerCase[IndexOf(UpperCase, c)] ELSE c

\* the transliteration table of the pinyin package, restricted to the
\* characters the model uses; "ba4", "shui3", "ku4" stand for the Han
\* characters with these readings, as "middot" stands for U+00B7 (each is
\* ONE character of a name)
pinyin_dict == [c \in {"ba4", "shui3", "ku4"} |->
                  CASE c = "ba4"   -> <<"b","a">>
                    [] c = "shui3" -> <<"s","h","u","i">>
                    [] c = "ku4"   -> <<"k","u">>]

\* re.sub(r'[chars]', '', s)
re_sub_remove(chars, s) == SelectSeq(s, LAMBDA c : c \notin chars)

\* pinyin.get(s, format="strip", delimiter=" "): one token per character,
\* a character outside the table is its own token; tokens joined by " "
RECURSIVE pinyin_get(_)
pinyin_get(s) ==
  IF s = <<>> THEN <<>>
  ELSE LET tok == Get(pinyin_dict, Head(s), <<Head(s)>>)
       IN IF Tail(s) = <<>> THEN tok ELSE tok \o <<" ">> \o pinyin_get(Tail(s))

\* str.split(): the maximal runs of non-whitespace characters
RECURSIVE split_from(_, _)
split_from(s, word) ==
  IF s = <<>> THEN (IF word = <<>> THEN <<>> ELSE <<word>>)
  ELSE IF Head(s) \in Whitespace
       THEN (IF word = <<>> THEN <<>> ELSE <<word>>) \o split_from(Tail(s), <<>>)
       ELSE split_from(Tail(s), Append(word, Head(s)))
split(s) == split_from(s, <<>>)

\* str.capitalize()
capitalize(word) ==
  IF word = <<>> THEN <<>>
  ELSE <<Upper(Head(word))>> \o [i \in 1..(Len(word) - 1) |-> Lower(word[i + 1])]

\* an assignment "x = val" followed by code F that uses x: val is computed
\* once and F works on its value
With(val, F(_)) == CHOOSE r \in {F(x) : x \in {val}} : TRUE

camel_case_id(entity_name) ==
  With(re_sub_remove({"middot", "-"}, entity_name), LAMBDA stripped :
  With(pinyin_get(stripped), LAMBDA pinyin_str :
  With(split(pinyin_str), LAMBDA words :
  With([i \in 1..Len(words) |-> capitalize(words[i])], LAMBDA capitalized :
  Flatten(capitalized)))))

\* mutant: the last substitution removes [^\w], which keeps the underscore
alnum_id_word(entity_name) ==
  With(camel_case_id(entity_name), LAMBDA camel :
  SelectSeq(camel, LAMBDA c : c \in AlnumChars \cup {"_"}))

\* re.sub(r'[^a-zA-Z0-9]', '', camel_case_id), as the characters it keeps
alnum_id(entity_name) ==
  With(camel_case_id(entity_name), LAMBDA camel :
  SelectSeq(camel, LAMBDA c : c \in AlnumChars))

standardize_entity_id(entity_name) ==
  With(alnum_id(entity_name), LAMBDA kept :
  Join(kept))

(* --------------------------- assemble_json ---------------------------- *)
\* os.path.basename(INPUT_EXCEL_FILE)
SOURCE_FILENAME == "entities.xlsx"

\* mutant: the identity and the relations are taken from info when it has them
assemble_json_from_info(entity_name, source_file, info, rels) ==
  Obj([entity_id          |-> Get(info, "entity_id", Str(standardize_entity_id(entity_name))),
       label              |-> Get(info, "label", Str(Join(entity_name))),
       aliases            |-> Get(info, "aliases", Arr(<<>>)),
       source_file        |-> Str(source_file),
       description        |-> Get(info, "description", Str("")),
       background_context |-> Get(info, "background_context", Str("")),
       entity_type        |-> Get(info, "entity_type", Obj(EmptyMap)),
       attributes         |-> Get(info, "attributes", Obj(EmptyMap)),
       relations          |-> Get(info, "relations", rels)])

\* mutant: a key that info lacks is left out instead of defaulted
assemble_json_sparse(entity_name, source_file, info, rels) ==
  LET full == [entity_id          |-> Str(standardize_entity_id(entity_name)),
               label              |-> Str(Join(entity_name)),
               aliases            |-> Get(info, "aliases", Arr(<<>>)),
               source_file        |-> Str(source_file),
               description        |-> Get(info, "description", Str("")),
               background_context |-> Get(info, "background_context", Str("")),
               entity_type        |-> Get(info, "entity_type", Obj(EmptyMap)),
               attributes         |-> Get(info, "attributes", Obj(EmptyMap)),
               relations          |-> rels]
      given == {"entity_id", "label", "source_file", "relations"} \cup DOMAIN info
  IN Obj([k \in DOMAIN full \cap given |-> full[k]])

assemble_json(entity_name, source_file, info, rels) ==
  LET aliases == IF "aliases" \in DOMAIN info THEN info["aliases"] ELSE Arr(<<>>)
  IN Obj([entity_id          |-> Str(standardize_entity_id(entity_name)),
          label              |-> Str(Join(entity_name)),
          aliases            |-> aliases,
          source_file        |-> Str(source_file),
          description        |-> Get(info, "description", Str("")),
          background_context |-> Get(info, "background_context", Str("")),
          entity_type        |-> Get(info, "entity_type", Obj(EmptyMap)),
          attributes         |-> Get(info, "attributes", Obj(EmptyMap)),
          relations          |-> rels])

(* --------------------------- validate_schema -------------------------- *)
MASTER_SCHEMA ==
  [type |-> "object",
   properties |->
     [entity_id          |-> [type |-> "string"],
      label              |-> [type |-> "string"],
      aliases            |-> [type |-> "array"],
      source_file        |-> [type |-> "string"],
      description        |-> [type |-> "string"],
      background_context |-> [type |-> "string"],
      entity_type        |-> [type |-> "object",
                              required |-> <<"primary_type", "sub_type">>],
      attributes         |-> [type |-> "object"],
      relations          |-> [type |-> "array",
                              required |-> <<"target_entity_id", "target_label",
                                             "relationship_type">>]],
   required |-> <<"entity_id", "label", "aliases", "source_file", "description",
                  "background_context", "entity_type", "attributes", "relations">>]

\* mutant: the loop over the required keys stops one key early
missing_required_key_short(json_obj) ==
  \E i \in 1..(Len(MASTER_SCHEMA.required) - 1) :
     MASTER_SCHEMA.required[i] \notin DOMAIN json_obj.v

\* first loop of validate_schema: required top-level keys
missing_required_key(json_obj) ==
  \E i \in DOMAIN MASTER_SCHEMA.required : MASTER_SCHEMA.required[i] \notin DOMAIN json_obj.v

\* second loop of validate_schema: isinstance checks on the keys present
wrong_type(json_obj) ==
  \E key \in DOMAIN MASTER_SCHEMA.properties :
     /\ key \in DOMAIN json_obj.v
     /\ \/ MASTER_SCHEMA.properties[key].type = "string" /\ json_obj.v[key].t # "string"
        \/ MASTER_SCHEMA.properties[key].type = "array"  /\ json_obj.v[key].t # "array"
        \/ MASTER_SCHEMA.properties[key].type = "object" /\ json_obj.v[key].t # "object"

validate_schema(json_obj) ==
  IF missing_required_key(json_obj) THEN FALSE
  ELSE IF wrong_type(json_obj) THEN FALSE
  ELSE TRUE

(* -------------------------- save_json_to_file ------------------------- *)
\* str(value) as the f-string of the file path formats it
py_str(val) ==
  CASE val.t = "string" -> val.v
    [] val.t = "number" -> "0"
    [] val.t = "null"   -> "None"
    [] val.t = "array"  -> "[...]"
    [] val.t = "object" -> "{...}"

\* the file name save_json_to_file derives from the record
save_filepath(json_data) ==
  py_str(Get(json_data.v, "entity_id", Str("unknown_entity"))) \o ".json"

\* content of a file that was opened for writing but whose dump failed
Truncated == [t |-> "truncated", v |-> 0]

\* mutant: an entry that exists is kept (the file is opened in mode "x")
put_keep(d, key, value) ==
  [k \in DOMAIN d \cup {key} |-> IF k \in DOMAIN d THEN d[k] ELSE value]

\* d[key] = value on a dict, and open(filepath, "w") + json.dump on the
\* directory: the entry is created or overwritten
put(d, key, value) ==
  [k \in DOMAIN d \cup {key} |-> IF k = key THEN value ELSE d[k]]

(* ------------------------- collaborator outcomes ---------------------- *)
\* a collaborator call that raises instead of returning
Fault == [t |-> "fault", v |-> 0]
\* a returned text that is not JSON
Malformed == [t |-> "malformed_text", v |-> 0]
\* json.dumps(val): the text that denotes the JSON value val
json_dumps(val) == [t |-> "json_text", v |-> val]
\* an exception raised by a call
Raised(exc) == [t |-> "raised", v |-> exc]
\* the cells of the input sheet and the entity names they can hold
NameA == <<"shui3", "ku4", "-", "a">>
NameB == <<"ba4", "middot", "B", "1">>
NaN == [t |-> "nan", v |-> 0]
Unreadable == [t |-> "unreadable", v |-> <<>>]

\* mutant: a text that is not JSON is read as the empty object
json_loads_lenient(text) ==
  IF text.t = "json_text" THEN text.v ELSE Obj(EmptyMap)

\* json.loads(text): the value the text denotes, JSONDecodeError otherwise
json_loads(text) ==
  IF text.t = "json_text" THEN text.v ELSE Raised("JSONDecodeError")

Cells == {NaN, Text(NameA), Text(NameB)}
SeqsUpTo(S, n) == UNION {[1..k -> S] : k \in 0..n}
Sheets == {Unreadable} \cup {[t |-> "sheet", v |-> col] : col \in SeqsUpTo(Cells, MaxRows)}

\* replies of the text-generation collaborator, per stage
QueryReplies == {Arr(<<Str("q1"), Str("q2")>>)}

CrawlResults == {Fault, None, Text(<<>>), Text(<<" ", "\n">>), Text(<<" ", "r", "a", "w">>)}

FullType == Obj([primary_type |-> Str("DomainConcept"), sub_type |-> Str("EngineeringProcess")])
TypingReplies ==
  {\* the reply the prompt asks for
   Obj([entity_type |-> FullType, description |-> Str("desc"),
        background_context |-> Str("bg")]),
   \* the same with keys that name the identity and the aliases
   Obj([entity_type |-> FullType, description |-> Str("desc"),
        background_context |-> Str("bg"), aliases |-> Arr(<<Str("alias")>>),
        entity_id |-> Str("Forged"), label |-> Str("forged")]),
   \* entity_type without sub_type
   Obj([entity_type |-> Obj([primary_type |-> Str("DomainConcept")]),
        description |-> Str("desc"), background_context |-> Str("bg")]),
   \* entity_type that is not an object
   Obj([entity_type |-> Str("EngineeringProcess"), description |-> Str("desc")]),
   \* description that is not a string
   Obj([entity_type |-> FullType, description |-> Num]),
   \* the fall-through reply "{}" and a reply that is a list
   Obj(EmptyMap), Arr(<<>>)}

AttributeReplies == {Obj([objectives |-> Arr(<<Str("flood control")>>)]), Arr(<<>>)}

FullRelation == Obj([target_entity_id |-> Str("OptimizationAlgorithm"),
                     target_label |-> Str("opt"), relationship_type |-> Str("uses_method")])
LawRelation == Obj([target_entity_id |-> Str("FloodControlLawOfPRC"),
                    target_label |-> Str("law"), relationship_type |-> Str("governed_by")])
PartialRelation == Obj([target_entity_id |-> Str("Flood"),
                        relationship_type |-> Str("mitigates")])
RelationReplies ==
  {\* the two relations of the placeholder reply, and no relation
   Arr(<<FullRelation, LawRelation>>), Arr(<<>>),
   \* an entry without target_label
   Arr(<<FullRelation, PartialRelation>>),
   \* the fall-through reply "{}"
   Obj(EmptyMap)}

\* the correction stage may echo the record, amend it, or return anything else
CorrectionReplies(record) ==
  {record,
   Obj([k \in DOMAIN record.v |-> IF k = "entity_id" THEN Str("Amended") ELSE record.v[k]]),
   Obj(EmptyMap), Arr(<<>>)}

\* what get_llm_response can do: raise, return text that is not JSON, or
\* return the text of one of the replies
Responses(replies) == {Fault, Malformed} \cup {json_dumps(val) : val \in replies}

\* outcome of os.makedirs and of open()/json.dump inside save_json_to_file
MakedirsOutcomes == {"ok", "os_error"}
WriteOutcomes == {"ok", "open_fails", "dump_fails"}

(* ------------------- well-formed replies (spec 6) --------------------- *)
IsString(val) == val.t = "string"
IsWellFormedQueries(val) ==
  val.t = "array" /\ \A i \in DOMAIN val.v : IsString(val.v[i])
IsWellFormedTyping(val) ==
  /\ val.t = "object"
  /\ {"entity_type", "description", "background_context"} \subseteq DOMAIN val.v
  /\ val.v["entity_type"].t = "object"
  /\ {"primary_type", "sub_type"} \subseteq DOMAIN val.v["entity_type"].v
  /\ IsString(val.v["description"]) /\ val.v["description"].v # ""
  /\ IsString(val.v["background_context"])
IsWellFormedAttributes(val) == val.t = "object"
IsRelationEntry(val) ==
  /\ val.t = "object"
  /\ \A k \in Range(MASTER_SCHEMA.properties["relations"].required) :
        k \in DOMAIN val.v /\ IsString(val.v[k])
IsWellFormedRelations(val) ==
  val.t = "array" /\ \A i \in DOMAIN val.v : IsRelationEntry(val.v[i])
\* a response is well-formed when it is the text of a well-formed reply
IsJson(resp) == resp.t = "json_text"

(* ------------------------------ strings ------------------------------- *)
RECURSIVE lstrip(_)
lstrip(s) == IF s # <<>> /\ Head(s) \in Whitespace THEN lstrip(Tail(s)) ELSE s
RECURSIVE rstrip(_)
rstrip(s) == IF s # <<>> /\ s[Len(s)] \in Whitespace
             THEN rstrip(SubSeq(s, 1, Len(s) - 1)) ELSE s
\* str.strip()
strip(s) == rstrip(lstrip(s))

\* mutant: the test without the strip() clause
no_information_unstripped(text) ==
  \/ text = None
  \/ text.v = <<>>

\* main.py line 44: not raw_text or raw_text.strip() == ""
no_information(text) ==
  \/ text = None
  \/ text.v = <<>>
  \/ strip(text.v) = <<>>

(* --------------------- load_all_entities_from_excel ------------------- *)
\* mutant: a sheet that cannot be read yields a placeholder entity
load_all_entities_from_excel_placeholder(sheet) ==
  IF sheet.t = "unreadable" THEN <<NameA>>
  ELSE LET kept == SelectSeq(sheet.v, LAMBDA c : c # NaN)
       IN [i \in 1..Len(kept) |-> kept[i].v]

\* df[0].dropna().astype(str).tolist(); any read error yields []
load_all_entities_from_excel(sheet) ==
  IF sheet.t = "unreadable" THEN <<>>
  ELSE LET kept == SelectSeq(sheet.v, LAMBDA c : c # NaN)
       IN [i \in 1..Len(kept) |-> kept[i].v]

(* ------------------------------- state -------------------------------- *)
VARIABLES
  pc,                  \* position of main(): load, loop, a stage, finished
  sheet_read,          \* how reading the input sheet ended: unread, ok, error
  all_entities_list,   \* main(): the roster
  entities_to_process, \* main(): the slice of the roster that is processed
  idx,                 \* main(): position of the for loop in entities_to_process
  state,               \* per roster entry: the pipeline state of spec 4.4
  reason,              \* per roster entry: why the entity was aborted
  calls,               \* log of the stage calls made, in order, with what
                       \* the callee returned
  augmented_queries, raw_text, structured_info, entity_type_name,
  relations, final_json_obj, validated_json,   \* locals of process_entity
  json_data,           \* save_json_to_file: the record it was handed
  output_dir_exists,   \* file system: the output directory
  files,               \* file system: file name -> content, in the output directory
  well_formed,         \* per roster entry: every response so far was well-formed
  unit_in, unit_out    \* argument and result of a helper called on its own

locals == <<augmented_queries, raw_text, structured_info, entity_type_name,
            relations, final_json_obj, validated_json>>
driver == <<sheet_read, all_entities_list, entities_to_process, idx>>
filesystem == <<output_dir_exists, files>>
unit == <<unit_in, unit_out>>
vars == <<pc, sheet_read, all_entities_list, entities_to_process, idx, state, reason,
          calls, augmented_queries, raw_text, structured_info, entity_type_name,
          relations, final_json_obj, validated_json, json_data,
          output_dir_exists, files, well_formed, unit_in, unit_out>>

NoFiles == [f \in {} |-> None]

\* main.py line 130: the driver processes all_entities_list[:2]
DemoCount == 2
Min(a, b) == IF a < b THEN a ELSE b

TerminalStates == {"Persisted", "Aborted"}
ExceptionReasons == {"CollaboratorError", "JSONDecodeError", "AttributeError", "OSError"}

Init ==
  /\ pc = "load" /\ sheet_read = "unread"
  /\ all_entities_list = <<>> /\ entities_to_process = <<>> /\ idx = 0
  /\ state = <<>> /\ reason = <<>> /\ well_formed = <<>>
  /\ calls = <<>>
  /\ augmented_queries = None /\ raw_text = None /\ structured_info = None
  /\ entity_type_name = None /\ relations = None /\ final_json_obj = None
  /\ validated_json = None /\ json_data = None
  /\ output_dir_exists = FALSE /\ files = NoFiles
  /\ unit_in = None /\ unit_out = None

entity_name == entities_to_process[idx]

\* what a collaborator returned, as the log records it
Observed(resp) ==
  CASE resp = Fault -> "fault"
    [] resp = Malformed -> "malformed"
    [] OTHER -> "returned"

Log(op, ret) == calls' = Append(calls, [e |-> idx, op |-> op, ret |-> ret])

\* main.py 135 and 76-79: the roster process_entity is given, which it
\* puts into the relation prompt
relation_context == all_entities_list
\* a call whose prompt carries the roster
LogWithRoster(op, ret) ==
  calls' = Append(calls, [e |-> idx, op |-> op, ret |-> ret, roster |-> relation_context])

\* mutant: an exception raised by process_entity ends the for loop
Abort_breaks(why) ==
  /\ state' = [state EXCEPT ![idx] = "Aborted"]
  /\ reason' = [reason EXCEPT ![idx] = why]
  /\ pc' = IF why \in ExceptionReasons THEN "finished" ELSE "loop"

\* process_entity returns early (reason "info_not_found", "schema_invalid")
\* or raises (an exception reason); main's except clause (main.py 136-138)
\* prints and the for loop goes on
Abort(why) ==
  /\ state' = [state EXCEPT ![idx] = "Aborted"]
  /\ reason' = [reason EXCEPT ![idx] = why]
  /\ pc' = "loop"

Advance(st, to) ==
  /\ state' = [state EXCEPT ![idx] = st]
  /\ pc' = to
  /\ UNCHANGED reason

Judge(ok) == well_formed' = [well_formed EXCEPT ![idx] = @ /\ ok]

(* ------------------------------- main() ------------------------------- *)
\* mutant: the whole roster is processed
LoadRoster_all ==
  /\ pc = "load"
  /\ \E sheet \in Sheets :
       LET entities == load_all_entities_from_excel(sheet) IN
         /\ sheet_read' = IF sheet = Unreadable THEN "error" ELSE "ok"
         /\ all_entities_list' = entities
         /\ state' = [i \in 1..Len(entities) |-> "NotStarted"]
         /\ reason' = [i \in 1..Len(entities) |-> ""]
         /\ well_formed' = [i \in 1..Len(entities) |-> TRUE]
         /\ IF entities = <<>>
            THEN pc' = "finished" /\ entities_to_process' = <<>>
            ELSE /\ pc' = "loop"
                 /\ entities_to_process' = entities
  /\ UNCHANGED <<idx, calls, locals, json_data, filesystem, unit>>

\* main.py 122-131
LoadRoster ==
  /\ pc = "load"
  /\ \E sheet \in Sheets :
       LET entities == load_all_entities_from_excel(sheet) IN
         /\ sheet_read' = IF sheet = Unreadable THEN "error" ELSE "ok"
         /\ all_entities_list' = entities
         /\ state' = [i \in 1..Len(entities) |-> "NotStarted"]
         /\ reason' = [i \in 1..Len(entities) |-> ""]
         /\ well_formed' = [i \in 1..Len(entities) |-> TRUE]
         /\ IF entities = <<>>
            THEN pc' = "finished" /\ entities_to_process' = <<>>
            ELSE /\ pc' = "loop"
                 /\ entities_to_process' = SubSeq(entities, 1, Min(DemoCount, Len(entities)))
  /\ UNCHANGED <<idx, calls, locals, json_data, filesystem, unit>>

\* mutant: an entity that was aborted is processed again
NextEntity_retrying ==
  /\ pc = "loop" /\ idx < Len(entities_to_process)
  /\ LET again == IF idx > 0 /\ state[idx] = "Aborted" THEN idx ELSE idx + 1 IN
       idx' = again /\ state' = [state EXCEPT ![again] = "Start"]
  /\ pc' = "stage1_llm"
  /\ augmented_queries' = None /\ raw_text' = None /\ structured_info' = None
  /\ entity_type_name' = None /\ relations' = None /\ final_json_obj' = None
  /\ validated_json' = None /\ json_data' = None
  /\ UNCHANGED <<sheet_read, all_entities_list, entities_to_process, reason, calls,
                 filesystem, well_formed, unit>>

\* main.py 133-135: the for loop calls process_entity for the next entity
NextEntity ==
  /\ pc = "loop" /\ idx < Len(entities_to_process)
  /\ idx' = idx + 1
  /\ state' = [state EXCEPT ![idx + 1] = "Start"]
  /\ pc' = "stage1_llm"
  /\ augmented_queries' = None /\ raw_text' = None /\ structured_info' = None
  /\ entity_type_name' = None /\ relations' = None /\ final_json_obj' = None
  /\ validated_json' = None /\ json_data' = None
  /\ UNCHANGED <<sheet_read, all_entities_list, entities_to_process, reason, calls,
                 filesystem, well_formed, unit>>

\* main.py 140-142: the loop is exhausted
Finish ==
  /\ pc = "loop" /\ idx = Len(entities_to_process)
  /\ pc' = "finished"
  /\ UNCHANGED <<driver, state, reason, calls, locals, json_data, filesystem,
                 well_formed, unit>>

(* --------------------------- process_entity --------------------------- *)
\* main.py 38-40
QueryAugmentation ==
  /\ pc = "stage1_llm"
  /\ \E resp \in Responses(QueryReplies) :
       LET parsed == json_loads(resp) IN
       /\ Log("query", Observed(resp))
       /\ Judge(IsJson(resp) /\ IsWellFormedQueries(resp.v))
       /\ IF resp = Fault
          THEN Abort("CollaboratorError") /\ UNCHANGED augmented_queries
          ELSE IF parsed.t = "raised"
          THEN Abort(parsed.v) /\ UNCHANGED augmented_queries
          ELSE Advance("QueryAugmented", "crawl") /\ augmented_queries' = parsed
  /\ UNCHANGED <<driver, raw_text, structured_info, entity_type_name, relations,
                 final_json_obj, validated_json, json_data, filesystem, unit>>

\* main.py 42-48
Retrieval ==
  /\ pc = "crawl"
  /\ \E text \in CrawlResults :
       /\ Log("crawl", Observed(text))
       /\ IF text = Fault
          THEN Abort("CollaboratorError") /\ Judge(FALSE) /\ UNCHANGED raw_text
          ELSE /\ raw_text' = text
               /\ Judge(text # None /\ \E i \in DOMAIN text.v : text.v[i] \notin Whitespace)
               /\ IF no_information(text)
                  THEN Abort("info_not_found")
                  ELSE Advance("Retrieved", "typing")
  /\ UNCHANGED <<driver, augmented_queries, structured_info, entity_type_name, relations,
                 final_json_obj, validated_json, json_data, filesystem, unit>>

\* main.py 54-62
Typing ==
  /\ pc = "typing"
  /\ \E resp \in Responses(TypingReplies) :
       LET parsed == json_loads(resp) IN
       /\ Log("typing", Observed(resp))
       /\ Judge(IsJson(resp) /\ IsWellFormedTyping(resp.v))
       /\ IF resp = Fault
          THEN Abort("CollaboratorError") /\ UNCHANGED <<structured_info, entity_type_name>>
          ELSE IF parsed.t = "raised"
          THEN Abort(parsed.v) /\ UNCHANGED <<structured_info, entity_type_name>>
          ELSE /\ structured_info' = parsed
               /\ IF parsed.t # "object"
                  THEN \* structured_info.get raises
                       Abort("AttributeError") /\ UNCHANGED entity_type_name
                  ELSE LET entity_type_obj == Get(parsed.v, "entity_type", Obj(EmptyMap)) IN
                       IF entity_type_obj.t # "object"
                       THEN \* entity_type_obj.get raises
                            Abort("AttributeError") /\ UNCHANGED entity_type_name
                       ELSE /\ entity_type_name' = Get(entity_type_obj.v, "sub_type", Str("Unknown"))
                            /\ Advance("Typed", "attributes")
  /\ UNCHANGED <<driver, augmented_queries, raw_text, relations,
                 final_json_obj, validated_json, json_data, filesystem, unit>>

\* main.py 64-70
AttributeExtraction ==
  /\ pc = "attributes"
  /\ \E resp \in Responses(AttributeReplies) :
       LET parsed == json_loads(resp) IN
       /\ Log("attributes", Observed(resp))
       /\ Judge(IsJson(resp) /\ IsWellFormedAttributes(resp.v))
       /\ IF resp = Fault
          THEN Abort("CollaboratorError") /\ UNCHANGED structured_info
          ELSE IF parsed.t = "raised"
          THEN Abort(parsed.v) /\ UNCHANGED structured_info
          ELSE /\ structured_info' = Obj(put(structured_info.v, "attributes", parsed))
               /\ Advance("AttributesExtracted", "relations")
  /\ UNCHANGED <<driver, augmented_queries, raw_text, entity_type_name, relations,
                 final_json_obj, validated_json, json_data, filesystem, unit>>

\* main.py 76-81
RelationInference ==
  /\ pc = "relations"
  /\ \E resp \in Responses(RelationReplies) :
       LET parsed == json_loads(resp) IN
       /\ LogWithRoster("relations", Observed(resp))
       /\ Judge(IsJson(resp) /\ IsWellFormedRelations(resp.v))
       /\ IF resp = Fault
          THEN Abort("CollaboratorError") /\ UNCHANGED relations
          ELSE IF parsed.t = "raised"
          THEN Abort(parsed.v) /\ UNCHANGED relations
          ELSE relations' = parsed /\ Advance("RelationsInferred", "assemble")
  /\ UNCHANGED <<driver, augmented_queries, raw_text, structured_info, entity_type_name,
                 final_json_obj, validated_json, json_data, filesystem, unit>>

\* main.py 88-93
Assemble ==
  /\ pc = "assemble"
  /\ final_json_obj' = assemble_json(entity_name, SOURCE_FILENAME, structured_info.v, relations)
  /\ Log("assemble", "returned") /\ Advance("Assembled", "validate")
  /\ UNCHANGED <<driver, augmented_queries, raw_text, structured_info, entity_type_name,
                 relations, validated_json, json_data, filesystem, well_formed, unit>>

\* mutant: the result of validate_schema is ignored
Validate_unchecked ==
  /\ pc = "validate"
  /\ Log("validate", IF validate_schema(final_json_obj) THEN "valid" ELSE "invalid")
  /\ Advance("Validated", "correct")
  /\ UNCHANGED <<driver, locals, json_data, filesystem, well_formed, unit>>

\* main.py 96-98
Validate ==
  /\ pc = "validate"
  /\ IF validate_schema(final_json_obj)
     THEN Log("validate", "valid") /\ Advance("Validated", "correct")
     ELSE Log("validate", "invalid") /\ Abort("schema_invalid")
  /\ UNCHANGED <<driver, locals, json_data, filesystem, well_formed, unit>>

\* main.py 101-105 and the json.loads of line 108
Correction ==
  /\ pc = "correct"
  /\ \E resp \in Responses(CorrectionReplies(final_json_obj)) :
       LET parsed == json_loads(resp) IN
       /\ Log("correct", Observed(resp))
       /\ Judge(resp = json_dumps(final_json_obj))
       /\ IF resp = Fault
          THEN Abort("CollaboratorError") /\ UNCHANGED validated_json
          ELSE IF parsed.t = "raised"
          THEN Abort(parsed.v) /\ UNCHANGED validated_json
          ELSE validated_json' = parsed /\ Advance("Corrected", "save")
  /\ UNCHANGED <<driver, augmented_queries, raw_text, structured_info, entity_type_name,
                 relations, final_json_obj, json_data, filesystem, unit>>

\* mutant: the assembled record is saved, not the correction response
Save_assembled ==
  /\ pc = "save"
  /\ json_data' = final_json_obj
  /\ \E made \in (IF output_dir_exists THEN {"ok"} ELSE MakedirsOutcomes),
        written \in WriteOutcomes :
       IF made = "os_error"
       THEN \* os.makedirs raises outside the try block
            Log("save", "raised") /\ Abort("OSError") /\ Judge(FALSE)
            /\ UNCHANGED filesystem
       ELSE /\ output_dir_exists' = TRUE
            /\ UNCHANGED well_formed
            /\ IF final_json_obj.t # "object"
               THEN \* json_data.get raises outside the try block
                    Log("save", "raised") /\ Abort("AttributeError") /\ UNCHANGED files
               ELSE /\ files' = CASE written = "ok" ->
                                       put(files, save_filepath(final_json_obj), final_json_obj)
                                  [] written = "dump_fails" ->
                                       put(files, save_filepath(final_json_obj), Truncated)
                                  [] written = "open_fails" -> files
                    /\ Log("save", IF written = "ok" THEN "stored" ELSE "write_failed")
                    /\ Advance("Persisted", "loop")
  /\ UNCHANGED <<driver, locals, unit>>

\* mutant: save_json_to_file has no except clause, a failing write raises
Save_raising ==
  /\ pc = "save"
  /\ json_data' = validated_json
  /\ \E made \in (IF output_dir_exists THEN {"ok"} ELSE MakedirsOutcomes),
        written \in WriteOutcomes :
       IF made = "os_error"
       THEN \* os.makedirs raises outside the try block
            Log("save", "raised") /\ Abort("OSError") /\ Judge(FALSE)
            /\ UNCHANGED filesystem
       ELSE /\ output_dir_exists' = TRUE
            /\ UNCHANGED well_formed
            /\ IF validated_json.t # "object"
               THEN \* json_data.get raises outside the try block
                    Log("save", "raised") /\ Abort("AttributeError") /\ UNCHANGED files
               ELSE /\ files' = CASE written = "ok" ->
                                       put(files, save_filepath(validated_json), validated_json)
                                  [] written = "dump_fails" ->
                                       put(files, save_filepath(validated_json), Truncated)
                                  [] written = "open_fails" -> files
                    /\ Log("save", IF written = "ok" THEN "stored" ELSE "write_failed")
                    /\ IF written = "ok" THEN Advance("Persisted", "loop")
                       ELSE Abort("OSError")
  /\ UNCHANGED <<driver, locals, unit>>

\* main.py 108-110 with utils.py 89-107
Save ==
  /\ pc = "save"
  /\ json_data' = validated_json
  /\ \E made \in (IF output_dir_exists THEN {"ok"} ELSE MakedirsOutcomes),
        written \in WriteOutcomes :
       IF made = "os_error"
       THEN \* os.makedirs raises outside the try block
            Log("save", "raised") /\ Abort("OSError") /\ Judge(FALSE)
            /\ UNCHANGED filesystem
       ELSE /\ output_dir_exists' = TRUE
            /\ UNCHANGED well_formed
            /\ IF validated_json.t # "object"
               THEN \* json_data.get raises outside the try block
                    Log("save", "raised") /\ Abort("AttributeError") /\ UNCHANGED files
               ELSE /\ files' = CASE written = "ok" ->
                                       put(files, save_filepath(validated_json), validated_json)
                                  [] written = "dump_fails" ->
                                       put(files, save_filepath(validated_json), Truncated)
                                  [] written = "open_fails" -> files
                    /\ Log("save", IF written = "ok" THEN "stored" ELSE "write_failed")
                    /\ Advance("Persisted", "loop")
  /\ UNCHANGED <<driver, locals, unit>>

Next ==
  \/ LoadRoster \/ NextEntity \/ Finish
  \/ QueryAugmentation \/ Retrieval \/ Typing \/ AttributeExtraction
  \/ RelationInference \/ Assemble \/ Validate \/ Correction \/ Save

Spec == Init /\ [][Next]_vars

(* ------------------- the helpers called on their own ------------------ *)
Bool(b) == [t |-> "boolean", v |-> b]
Absent == [t |-> "absent", v |-> 0]

\* the state before a helper is called on the argument arg
UnitInit(arg) ==
  /\ pc = "call" /\ sheet_read = "unread"
  /\ all_entities_list = <<>> /\ entities_to_process = <<>> /\ idx = 0
  /\ state = <<>> /\ reason = <<>> /\ well_formed = <<>>
  /\ calls = <<>>
  /\ augmented_queries = None /\ raw_text = None /\ structured_info = None
  /\ entity_type_name = None /\ relations = None /\ final_json_obj = None
  /\ validated_json = None /\ json_data = None
  /\ output_dir_exists = FALSE /\ files = NoFiles
  /\ unit_in = arg /\ unit_out = None

pipeline == <<sheet_read, all_entities_list, entities_to_process, idx, state, reason,
              calls, augmented_queries, raw_text, structured_info, entity_type_name,
              relations, final_json_obj, validated_json, json_data,
              output_dir_exists, files, well_formed>>

\* a complete record, as assemble_json builds it from the placeholder replies
CompleteRecord ==
  assemble_json(NameA, SOURCE_FILENAME,
                [entity_type |-> FullType, description |-> Str("desc"),
                 background_context |-> Str("bg"),
                 attributes |-> Obj([objectives |-> Arr(<<Str("flood control")>>)])],
                Arr(<<FullRelation, LawRelation>>))

\* what a top-level key of the record is replaced by: nothing, or a value
\* of any JSON type, with and without the nested keys
Replacements ==
  {Absent, Num, Str("x"), Arr(<<>>), Arr(<<PartialRelation>>), Obj(EmptyMap),
   Obj([primary_type |-> Str("DomainConcept")])}

Defective(record, change) ==
  Obj([k \in DOMAIN record.v \ {d \in DOMAIN change : change[d] = Absent} |->
         IF k \in DOMAIN change THEN change[k] ELSE record.v[k]])

\* the records validate_schema is called on
RecordsToValidate ==
  UNION {{Defective(CompleteRecord, change) : change \in [keys -> Replacements]} :
           keys \in {ks \in SUBSET DOMAIN CompleteRecord.v : Cardinality(ks) <= MaxDefects}}

InitValidate == \E record \in RecordsToValidate : UnitInit(record)

\* mutant: the required keys the record lacks are filled in (setdefault)
CallValidateSchema_filling ==
  /\ pc = "call"
  /\ unit_out' = Bool(validate_schema(unit_in))
  /\ unit_in' = Obj([k \in DOMAIN unit_in.v \cup Range(MASTER_SCHEMA.required) |->
                       Get(unit_in.v, k, None)])
  /\ pc' = "returned"
  /\ UNCHANGED pipeline

\* validator_module.py 47-85
CallValidateSchema ==
  /\ pc = "call"
  /\ unit_out' = Bool(validate_schema(unit_in))
  /\ pc' = "returned"
  /\ UNCHANGED <<unit_in, pipeline>>

SpecValidate == InitValidate /\ [][CallValidateSchema]_vars

\* the arguments assemble_json is called on: info with any subset of its
\* keys, any relations value
InfoValues ==
  [aliases            |-> {Absent, Arr(<<Str("alias")>>), Str("alias")},
   description        |-> {Absent, Str("desc"), Num},
   background_context |-> {Absent, Str("bg"), None},
   entity_type        |-> {Absent, FullType, Obj([primary_type |-> Str("DomainConcept")])},
   attributes         |-> {Absent, Obj([objectives |-> Arr(<<Str("flood control")>>)]), Arr(<<>>)},
   entity_id          |-> {Absent, Str("Forged")}]
Infos ==
  {[k \in {key \in DOMAIN choice : choice[key] # Absent} |-> choice[k]] :
     choice \in [aliases : InfoValues.aliases, description : InfoValues.description,
                 background_context : InfoValues.background_context,
                 entity_type : InfoValues.entity_type,
                 attributes : InfoValues.attributes, entity_id : InfoValues.entity_id]}
RelationsValues == {Arr(<<>>), Arr(<<FullRelation, PartialRelation>>), Obj(EmptyMap), None}
AssembleArguments ==
  [entity_name : {NameA, NameB, <<>>}, info : Infos, relations : RelationsValues]

InitAssemble == \E args \in AssembleArguments : UnitInit(args)

\* utils.py 54-86
CallAssembleJson ==
  /\ pc = "call"
  /\ unit_out' = assemble_json(unit_in.entity_name, SOURCE_FILENAME, unit_in.info,
                               unit_in.relations)
  /\ pc' = "returned"
  /\ UNCHANGED <<unit_in, pipeline>>

SpecAssemble == InitAssemble /\ [][CallAssembleJson]_vars

\* the records save_json_to_file is called on: two records with the same
\* entity_id, one with another entity_id, one without entity_id, and a
\* value that is not a dict
RevisedRecord ==
  Obj([k \in DOMAIN CompleteRecord.v |->
         IF k = "description" THEN Str("revised") ELSE CompleteRecord.v[k]])
OtherRecord ==
  assemble_json(NameB, SOURCE_FILENAME, [entity_type |-> FullType], Arr(<<>>))
RecordsToSave == {CompleteRecord, RevisedRecord, OtherRecord, Obj(EmptyMap), Arr(<<>>)}

InitSave == UnitInit(None)

\* utils.py 89-107, called again and again on the same output directory
CallSaveJsonToFile ==
  /\ pc = "call" /\ Len(calls) < MaxSaves
  /\ \E record \in RecordsToSave,
        made \in (IF output_dir_exists THEN {"ok"} ELSE MakedirsOutcomes),
        written \in WriteOutcomes :
       /\ unit_in' = record
       /\ IF made = "os_error"
          THEN \* os.makedirs raises outside the try block
               /\ unit_out' = Raised("OSError")
               /\ calls' = Append(calls, [e |-> 0, op |-> "save", ret |-> "raised",
                                          record |-> record, path |-> ""])
               /\ UNCHANGED filesystem
          ELSE /\ output_dir_exists' = TRUE
               /\ IF record.t # "object"
                  THEN \* json_data.get raises outside the try block
                       /\ unit_out' = Raised("AttributeError")
                       /\ calls' = Append(calls, [e |-> 0, op |-> "save", ret |-> "raised",
                                                  record |-> record, path |-> ""])
                       /\ UNCHANGED files
                  ELSE /\ unit_out' = None
                       /\ files' = CASE written = "ok" ->
                                          put(files, save_filepath(record), record)
                                     [] written = "dump_fails" ->
                                          put(files, save_filepath(record), Truncated)
                                     [] written = "open_fails" -> files
                       /\ calls' = Append(calls, [e |-> 0, op |-> "save", ret |-> written,
                                                  record |-> record,
                                                  path |-> save_filepath(record)])
  /\ UNCHANGED <<pc, sheet_read, all_entities_list, entities_to_process, idx, state,
                 reason, locals, json_data, well_formed>>

SpecSave == InitSave /\ [][CallSaveJsonToFile]_vars

\* the labels standardize_entity_id is called on: middle dot, hyphen, a
\* lower-case and an upper-case letter, a digit, a Han character, a blank
\* and another symbol
LabelChars == {"middot", "-", "a", "B", "1", "shui3", " ", "_"}
Labels == SeqsUpTo(LabelChars, MaxLabelLen)

InitStandardize == \E label \in Labels : UnitInit(label)

\* utils.py 38-51: the identifier returned, and the characters it is made of
CallStandardizeEntityId ==
  /\ pc = "call"
  /\ unit_out' = [id |-> standardize_entity_id(unit_in), chars |-> alnum_id(unit_in)]
  /\ pc' = "returned"
  /\ UNCHANGED <<unit_in, pipeline>>

SpecStandardize == InitStandardize /\ [][CallStandardizeEntityId]_vars

\* the run under the scheduling of a sequential program: a step that can
\* be taken is taken
FairSpec == Spec /\ WF_vars(Next)

(* ------------------------- vocabulary of the claims ------------------- *)
\* spec 6: the nine required top-level keys and the type of each
DeclaredType ==
  [entity_id |-> "string", label |-> "string", aliases |-> "array",
   source_file |-> "string", description |-> "string",
   background_context |-> "string", entity_type |-> "object",
   attributes |-> "object", relations |-> "array"]
RequiredKeys == DOMAIN DeclaredType
\* spec 3: all required top-level keys present with values of the declared type
IsComplete(record) ==
  /\ record.t = "object"
  /\ \A key \in RequiredKeys :
        key \in DOMAIN record.v /\ record.v[key].t = DeclaredType[key]
\* spec 6: the nested keys of entity_type and of each relations entry
HasNestedRequired(record) ==
  /\ {"primary_type", "sub_type"} \subseteq DOMAIN record.v["entity_type"].v
  /\ \A i \in DOMAIN record.v["relations"].v :
        /\ record.v["relations"].v[i].t = "object"
        /\ {"target_entity_id", "target_label", "relationship_type"}
              \subseteq DOMAIN record.v["relations"].v[i].v
\* the stage calls made for roster entry e, in order
OpsOf(e) ==
  LET mine == SelectSeq(calls, LAMBDA c : c.e = e) IN [i \in DOMAIN mine |-> mine[i].op]
\* call i of the log is the last one made for its entity
IsLastCallOfEntity(i) == \A j \in DOMAIN calls : j > i => calls[j].e # calls[i].e
Called(e, op) == \E i \in DOMAIN calls : calls[i].e = e /\ calls[i].op = op
Started(e) == e \in DOMAIN state /\ state[e] # "NotStarted"
IsBlank(text) == text = None \/ \A i \in DOMAIN text.v : text.v[i] \in Whitespace
ProcessedAll == \A e \in DOMAIN entities_to_process : state[e] \in TerminalStates

(* ------------------------------- claims ------------------------------- *)
\* C1: every record handed to save_json_to_file is complete: it has the
\* nine required top-level keys, each with a value of the declared type.
C1_PersistedRecordComplete ==
  json_data # None => IsComplete(json_data)

\* C2: when the retrieval collaborator returns absent, empty or
\* whitespace-only text for an entity, the entity is Aborted at once with
\* reason "info not found", and query and crawl stay the only calls ever
\* made for it (no typing, attribute, relation, validation, correction or
\* storage call).
C2_RetrievalEmptyAborts ==
  /\ (idx > 0 /\ Called(idx, "crawl") /\ calls[Len(calls)].ret = "returned"
        /\ calls[Len(calls)].op = "crawl" /\ IsBlank(raw_text))
       => state[idx] = "Aborted" /\ reason[idx] = "info_not_found"
  /\ (idx > 0 /\ state[idx] # "Aborted" /\ Called(idx, "typing")) => ~IsBlank(raw_text)
  /\ \A e \in DOMAIN state :
        reason[e] = "info_not_found"
          => state[e] = "Aborted" /\ OpsOf(e) = <<"query", "crawl">>
C2_Witness ==
  /\ idx = 2 /\ raw_text = Text(<<" ", "\n">>) /\ state[2] = "Aborted"
  /\ reason[1] = "info_not_found" /\ pc = "finished"

\* C3: when validate_schema returns False for the assembled record, the
\* entity is Aborted, validation is the last call made for it (no
\* correction, no storage call), and the driver goes on: the run never
\* finishes with an entity to process left unprocessed.
C3_SchemaInvalidAborts ==
  \A i \in DOMAIN calls :
     (calls[i].op = "validate" /\ calls[i].ret = "invalid")
       => /\ state[calls[i].e] = "Aborted"
          /\ reason[calls[i].e] = "schema_invalid"
          /\ IsLastCallOfEntity(i)
          /\ pc \in {"loop", "finished"} \/ idx > calls[i].e
          /\ pc = "finished" => ProcessedAll
C3_Witness ==
  /\ Len(entities_to_process) = 2 /\ reason[1] = "schema_invalid"
  /\ state[2] = "Persisted"

\* C4: a failure of one entity (early return or exception raised at any
\* stage) does not stop the run: entities are started in roster order, an
\* entity is started only when the one before it is Persisted or Aborted,
\* the calls of the log are grouped by entity in that order, and when the
\* run has finished every entity to process is Persisted or Aborted.
C4_FailureIsolation ==
  /\ \A e \in DOMAIN state : (e > 1 /\ Started(e)) => state[e - 1] \in TerminalStates
  /\ \A e \in DOMAIN state : (Started(e) /\ state[e] \notin TerminalStates) => e = idx
  /\ \A i, j \in DOMAIN calls : i < j => calls[i].e <= calls[j].e
  /\ pc = "finished" => ProcessedAll
C4_Witness ==
  /\ Len(entities_to_process) = 2 /\ pc = "finished"
  /\ reason[1] \in ExceptionReasons /\ state[2] = "Persisted"

\* C5: a response that cannot be parsed, at any of the five stages, makes
\* process_entity raise JSONDecodeError: the entity is Aborted with that
\* reason and the call with the malformed response is the last call made
\* for it (no later stage, no storage call).
C5_ParseFailurePropagates ==
  \A i \in DOMAIN calls :
     calls[i].ret = "malformed"
       => /\ state[calls[i].e] = "Aborted"
          /\ reason[calls[i].e] = "JSONDecodeError"
          /\ IsLastCallOfEntity(i)
          /\ ~Called(calls[i].e, "save")
C5_Witness ==
  /\ \E i \in DOMAIN calls : calls[i].e = 1 /\ calls[i].op = "correct" /\ calls[i].ret = "malformed"
  /\ \E i \in DOMAIN calls : calls[i].e = 2 /\ calls[i].op = "typing" /\ calls[i].ret = "malformed"
  /\ pc = "finished"

\* C6: when the roster is empty, also because the sheet could not be read,
\* main ends without a process_entity call: no stage call, no entity started,
\* no file written.
C6_EmptyRosterTerminates ==
  (pc # "load" /\ (all_entities_list = <<>> \/ sheet_read = "error"))
    => /\ pc = "finished" /\ idx = 0
       /\ calls = <<>> /\ files = NoFiles /\ ~output_dir_exists
       /\ \A e \in DOMAIN state : ~Started(e)
C6_Witness ==
  pc = "finished" /\ sheet_read = "error" /\ all_entities_list = <<>>

\* C7: an entity whose retrieval text is not blank and whose stage
\* responses are all well-formed (the correction stage echoing the record,
\* no collaborator raising) eventually reaches Persisted, and the record
\* handed to the storage writer then has the canonical identifier of the
\* entity name as entity_id ("ShuiKuA" for the first name, "BaB1" for the
\* second), the entity name as label, a non-empty description, and every
\* entry the relation-inference stage returned among its relations.
PersistedAsExpected ==
  /\ json_data.t = "object"
  /\ {"entity_id", "label", "description", "relations"} \subseteq DOMAIN json_data.v
  /\ json_data.v["entity_id"] = Str(standardize_entity_id(entity_name))
  /\ entity_name = NameA => json_data.v["entity_id"] = Str("ShuiKuA")
  /\ entity_name = NameB => json_data.v["entity_id"] = Str("BaB1")
  /\ json_data.v["label"] = Str(Join(entity_name))
  /\ IsString(json_data.v["description"]) /\ json_data.v["description"].v # ""
  /\ json_data.v["relations"].t = "array"
  /\ \A i \in DOMAIN relations.v :
        \E j \in DOMAIN json_data.v["relations"].v :
           json_data.v["relations"].v[j] = relations.v[i]
C7_SuccessPath ==
  /\ []((idx > 0 /\ state[idx] = "Persisted" /\ well_formed[idx]) => PersistedAsExpected)
  /\ \A e \in 1..DemoCount :
        (Started(e) /\ well_formed[e])
          ~> (Started(e) /\ (~well_formed[e] \/ state[e] = "Persisted"))
C7_Witness ==
  /\ idx = 2 /\ state[2] = "Persisted" /\ well_formed[2] /\ entity_name = NameB
  /\ relations = Arr(<<FullRelation, LawRelation>>)
  /\ "BaB1.json" \in DOMAIN files /\ files["BaB1.json"] = json_data
  /\ "entity_id" \in DOMAIN structured_info.v

\* C8: validate_schema returns False for a record that lacks one of the
\* nine required top-level keys, and True for a record that has all nine,
\* each with a value of the declared type (whatever the nested content).
C8_ValidateTopLevel ==
  pc = "returned"
    => /\ (\E key \in RequiredKeys : key \notin DOMAIN unit_in.v) => unit_out = Bool(FALSE)
       /\ IsComplete(unit_in) => unit_out = Bool(TRUE)
C8_Witness ==
  /\ pc = "returned" /\ unit_out = Bool(FALSE)
  /\ DOMAIN unit_in.v = RequiredKeys \ {"relations"}
  /\ \A key \in DOMAIN unit_in.v : unit_in.v[key].t = DeclaredType[key]

\* C9: a record that passed validate_schema (the entity went on to the
\* correction stage) has primary_type and sub_type in its entity_type and
\* target_entity_id, target_label and relationship_type in every relations
\* entry; a record lacking one of them is aborted.
C9_NestedRequiredChecked ==
  (idx > 0 /\ state[idx] \in {"Validated", "Corrected", "Persisted"})
    => HasNestedRequired(final_json_obj)

\* C10: assemble_json returns, for every info mapping and every relations
\* value, an object with exactly the nine required top-level keys, where a
\* key that info lacks has its default ([] for aliases, "" for description
\* and background_context, {} for entity_type and attributes), a key that
\* info has keeps its value, and relations is the value given.
C10_AssembleTotal ==
  pc = "returned"
    => /\ unit_out.t = "object" /\ DOMAIN unit_out.v = RequiredKeys
       /\ unit_out.v["aliases"] = Get(unit_in.info, "aliases", Arr(<<>>))
       /\ unit_out.v["description"] = Get(unit_in.info, "description", Str(""))
       /\ unit_out.v["background_context"] = Get(unit_in.info, "background_context", Str(""))
       /\ unit_out.v["entity_type"] = Get(unit_in.info, "entity_type", Obj(EmptyMap))
       /\ unit_out.v["attributes"] = Get(unit_in.info, "attributes", Obj(EmptyMap))
       /\ unit_out.v["relations"] = unit_in.relations
       /\ unit_out.v["source_file"] = Str(SOURCE_FILENAME)
C10_Witness ==
  /\ pc = "returned" /\ unit_in.info = EmptyMap /\ unit_in.relations = None
  /\ unit_out.v["aliases"] = Arr(<<>>) /\ unit_out.v["description"] = Str("")
  /\ unit_out.v["entity_type"] = Obj(EmptyMap)

\* C11: the identity of the assembled record depends on the entity name
\* only: whatever the typing, attribute and relation stages returned (also
\* an info mapping that has an entity_id or a label key of its own), the
\* entity_id of the assembled record is standardize_entity_id of the entity
\* name and its label is the entity name, so two runs on the same name
\* assemble the same entity_id and label.
C11_IdentityFromNameOnly ==
  (idx > 0 /\ final_json_obj # None)
    => /\ final_json_obj.v["entity_id"] = Str(standardize_entity_id(entity_name))
       /\ final_json_obj.v["label"] = Str(Join(entity_name))
C11_Witness ==
  /\ idx > 0 /\ final_json_obj # None /\ entity_name = NameA
  /\ "entity_id" \in DOMAIN structured_info.v /\ "label" \in DOMAIN structured_info.v
  /\ structured_info.v["entity_id"] = Str("Forged")
  /\ relations = Obj(EmptyMap)
  /\ final_json_obj.v["entity_id"] = Str("ShuiKuA")

\* C12: the file a record is written to is named after the canonical
\* identifier of the entity name it was made for: when an entity is
\* Persisted, save_json_to_file derived the file name from
\* standardize_entity_id of the entity name, and the output directory holds
\* no file under any other name, whatever the correction stage returned.
C12_FileKeyedByCanonicalId ==
  /\ (idx > 0 /\ state[idx] = "Persisted")
       => save_filepath(json_data) = standardize_entity_id(entity_name) \o ".json"
  /\ DOMAIN files \subseteq
       {standardize_entity_id(entities_to_process[e]) \o ".json" : e \in 1..idx}

\* the calls of the log that wrote to the file named path with an outcome
\* among outcomes, and the last of them
WritesTo(path, outcomes) ==
  {i \in DOMAIN calls : calls[i].path = path /\ calls[i].ret \in outcomes}
LastOf(indices) == CHOOSE i \in indices : \A j \in indices : j <= i
SavePaths == {save_filepath(record) : record \in {r \in RecordsToSave : r.t = "object"}}

\* C13 as stated: after any sequence of save_json_to_file calls the store
\* has an entry for an entity_id exactly when a write for it succeeded, and
\* its content is the record of the last successful write for that id.
C13_LastSuccessfulWrite ==
  \A path \in SavePaths :
     LET good == WritesTo(path, {"ok"}) IN
       IF good = {} THEN path \notin DOMAIN files
       ELSE path \in DOMAIN files /\ files[path] = calls[LastOf(good)].record

\* C13 as amended: after any sequence of save_json_to_file calls the store
\* has one entry per entity_id for which a call opened the file, and its
\* content is what the last such call left: the call's record when the
\* dump succeeded, a partial file when the dump failed; a call that raised
\* or whose open failed leaves the store as it was; and a call that
\* succeeds with the record the store already holds for that id leaves the
\* store in the same state.
C13_OverwriteIdempotent ==
  /\ [](\A path \in SavePaths :
          LET opened == WritesTo(path, {"ok", "dump_fails"}) IN
            IF opened = {} THEN path \notin DOMAIN files
            ELSE /\ path \in DOMAIN files
                 /\ files[path] = IF calls[LastOf(opened)].ret = "ok"
                                  THEN calls[LastOf(opened)].record ELSE Truncated)
  /\ [](DOMAIN files \subseteq SavePaths)
  /\ [][(Len(calls') = Len(calls) + 1 /\ calls'[Len(calls')].ret \in {"raised", "open_fails"})
          => files' = files]_vars
  /\ [][(/\ Len(calls') = Len(calls) + 1 /\ calls'[Len(calls')].ret = "ok"
         /\ calls'[Len(calls')].path \in DOMAIN files
         /\ files[calls'[Len(calls')].path] = calls'[Len(calls')].record)
          => files' = files]_vars
C13_Witness ==
  /\ Len(calls) = 3
  /\ calls[1].record = CompleteRecord /\ calls[1].ret = "ok"
  /\ calls[2].record = RevisedRecord /\ calls[2].ret = "ok"
  /\ calls[3].record = RevisedRecord /\ calls[3].ret = "ok"
  /\ DOMAIN files = {"ShuiKuA.json"} /\ files["ShuiKuA.json"] = RevisedRecord

\* C14: validate_schema is read-only: for every record, valid or invalid,
\* the call leaves the record as it was, and it changes no other state of
\* the pipeline (roster, locals, log, output directory).
C14_ValidateReadOnly ==
  [][pc = "call" => (unit_in' = unit_in /\ pipeline' = pipeline)]_vars
C14_Witness ==
  /\ pc = "returned" /\ unit_out = Bool(FALSE)
  /\ "entity_type" \notin DOMAIN unit_in.v
  /\ "aliases" \in DOMAIN unit_in.v /\ unit_in.v["aliases"] = Num

\* the characters [A-Za-z0-9]
IdAlphabet ==
  {"a","b","c","d","e","f","g","h","i","j","k","l","m","n","o","p","q","r","s","t",
   "u","v","w","x","y","z","A","B","C","D","E","F","G","H","I","J","K","L","M","N",
   "O","P","Q","R","S","T","U","V","W","X","Y","Z","0","1","2","3","4","5","6","7",
   "8","9"}
\* no character of the label is a letter, a digit or a Han character
NothingToTransliterate(label) ==
  \A i \in DOMAIN label : label[i] \in {"middot", "-", " ", "_"}

\* C15: for every label over middle dot, hyphen, letters, digits, Han
\* characters, blanks and other symbols, standardize_entity_id returns a
\* string made of characters of [A-Za-z0-9] only (so without middle dot and
\* hyphen) and with at least one character for each letter and digit of
\* the label, and the empty string for a label with nothing to
\* transliterate; it never raises.
C15_IdAlphabet ==
  pc = "returned"
    => /\ \A i \in DOMAIN unit_out.chars : unit_out.chars[i] \in IdAlphabet
       /\ unit_out.id = Join(unit_out.chars)
       /\ Len(unit_out.chars) >= Len(SelectSeq(unit_in, LAMBDA c : c \in IdAlphabet))
       /\ NothingToTransliterate(unit_in) => unit_out.id = ""
       /\ (unit_out.id = "") = (unit_out.chars = <<>>)
C15_Witness ==
  /\ pc = "returned" /\ unit_in = <<"shui3", "middot", "_">>
  /\ unit_out.id = "Shui"

\* spec 4.4: the states of an entity in the order they are visited
StageOrder ==
  <<"Start", "QueryAugmented", "Retrieved", "Typed", "AttributesExtracted",
    "RelationsInferred", "Assembled", "Validated", "Corrected", "Persisted">>
\* the moves spec 4.4 allows: to the next state of the order, or from a
\* state that is not terminal to Aborted
IsStageMove(from, to) ==
  \/ from = "NotStarted" /\ to = "Start"
  \/ \E i \in 1..(Len(StageOrder) - 1) : from = StageOrder[i] /\ to = StageOrder[i + 1]
  \/ from \in Range(StageOrder) \ {"Persisted"} /\ to = "Aborted"

\* C16: the state of an entity changes only along the order Start,
\* QueryAugmented, Retrieved, Typed, AttributesExtracted, RelationsInferred,
\* Assembled, Validated, Corrected, Persisted, one state at a time, or from
\* a state that is not terminal to Aborted; once an entity is Persisted or
\* Aborted its state never changes again and no further call is made for it.
C16_StageOrder ==
  /\ [][\A e \in DOMAIN state :
           state'[e] # state[e] => IsStageMove(state[e], state'[e])]_vars
  /\ [][\A e \in DOMAIN state :
           state[e] \in {"Persisted", "Aborted"}
             => /\ state'[e] = state[e]
                /\ SelectSeq(calls', LAMBDA c : c.e = e) = SelectSeq(calls, LAMBDA c : c.e = e)]_vars
  /\ [](\A e \in DOMAIN state :
           state[e] \in {"NotStarted", "Aborted"} \cup Range(StageOrder))
C16_Witness ==
  /\ Len(entities_to_process) = 2 /\ pc = "finished"
  /\ state[1] = "Persisted"
  /\ OpsOf(1) = <<"query", "crawl", "typing", "attributes", "relations", "assemble",
                  "validate", "correct", "save">>
  /\ state[2] = "Aborted" /\ reason[2] = "AttributeError" /\ Called(2, "save")

\* the positions of the calls with operation op among the calls of entity e
PositionsOf(e, op) == {i \in DOMAIN OpsOf(e) : OpsOf(e)[i] = op}

\* C17: validate_schema is called at most once for an entity, and exactly
\* once, before the correction call, for an entity that reached the
\* correction stage; no validation follows the correction call; and the
\* record save_json_to_file is handed is the parsed response of the
\* correction stage, whatever it is, not the assembled record.
C17_CorrectionNotRevalidated ==
  /\ \A e \in DOMAIN state :
        /\ Cardinality(PositionsOf(e, "validate")) <= 1
        /\ Called(e, "correct")
             => /\ Cardinality(PositionsOf(e, "validate")) = 1
                /\ \A v \in PositionsOf(e, "validate"), c \in PositionsOf(e, "correct") : v < c
        /\ Called(e, "save") => Called(e, "correct")
  /\ json_data # None
       => /\ Called(idx, "save")
          /\ json_data = validated_json
          /\ OpsOf(idx)[Len(OpsOf(idx)) - 1] = "correct"
C17_Witness ==
  /\ idx = 1 /\ state[1] = "Persisted" /\ json_data = Obj(EmptyMap)
  /\ final_json_obj # json_data
  /\ "unknown_entity.json" \in DOMAIN files

IsFailedWrite ==
  /\ Len(calls') = Len(calls) + 1
  /\ calls'[Len(calls')].op = "save" /\ calls'[Len(calls')].ret = "write_failed"

\* C19: a write that fails inside save_json_to_file is swallowed: the call
\* stores no record (the directory keeps its files, or the file opened is
\* left partial), the entity ends as Persisted with no abort reason, the
\* driver is back in its loop, and the run does not finish before every
\* entity to process was processed.
C19_WriteFailureSwallowed ==
  /\ [][IsFailedWrite
          => /\ \/ files' = files
                \/ \E path \in DOMAIN files' : files' = put(files, path, Truncated)
             /\ state'[idx] = "Persisted" /\ reason'[idx] = ""
             /\ pc' = "loop" /\ idx' = idx]_vars
  /\ [](\A i \in DOMAIN calls :
           (calls[i].op = "save" /\ calls[i].ret = "write_failed")
             => /\ state[calls[i].e] = "Persisted" /\ reason[calls[i].e] = ""
                /\ pc = "finished" => ProcessedAll)
C19_Witness ==
  /\ pc = "finished" /\ Len(entities_to_process) = 2
  /\ \E i \in DOMAIN calls : calls[i].e = 1 /\ calls[i].ret = "write_failed"
  /\ state[1] = "Persisted" /\ state[2] = "Persisted"
  /\ validated_json.t = "object" /\ DOMAIN files = {save_filepath(validated_json)}
  /\ files[save_filepath(validated_json)] = validated_json
  /\ entities_to_process[1] # entities_to_process[2]

\* the save_json_to_file calls made for entity e, as the log has them
SavesOf(e) == SelectSeq(calls, LAMBDA c : c.e = e /\ c.op = "save")

\* C20 as stated: the run eventually finishes, and then every entity that
\* was started is Persisted or Aborted, with save_json_to_file called
\* exactly once for it if it is Persisted and never if it is Aborted.
C20_Terminates ==
  /\ <>(pc = "finished")
  /\ [](pc = "finished"
          => \A e \in DOMAIN state :
                Started(e)
                  => /\ state[e] \in {"Persisted", "Aborted"}
                     /\ state[e] = "Persisted" => Len(SavesOf(e)) = 1
                     /\ state[e] = "Aborted" => Len(SavesOf(e)) = 0)

\* C20 as amended: the run eventually finishes, and then every entity that
\* was started is Persisted or Aborted, with save_json_to_file called at
\* most once for it: exactly once, returning normally, if it is Persisted;
\* never if it is Aborted, unless the abort is an exception raised by that
\* one call.
C20_TerminatesSavedOnce ==
  /\ <>(pc = "finished")
  /\ [](pc = "finished"
          => \A e \in DOMAIN state :
                Started(e)
                  => /\ state[e] \in {"Persisted", "Aborted"}
                     /\ Len(SavesOf(e)) <= 1
                     /\ state[e] = "Persisted"
                          => Len(SavesOf(e)) = 1 /\ SavesOf(e)[1].ret # "raised"
                     /\ (state[e] = "Aborted" /\ Len(SavesOf(e)) = 1)
                          => /\ SavesOf(e)[1].ret = "raised"
                             /\ reason[e] \in {"OSError", "AttributeError"})
C20_Witness ==
  /\ pc = "finished" /\ Len(all_entities_list) = 3 /\ Len(entities_to_process) = 2
  /\ state[1] = "Aborted" /\ reason[1] = "OSError" /\ Len(SavesOf(1)) = 1
  /\ state[2] = "Persisted" /\ Len(SavesOf(2)) = 1

====
